---- MODULE Spec2Model ----
(***************************************************************************)
(* Model of python_scripts/roi_calc.py: the single-loan amortization       *)
(* schedule and the rolling-reinvestment portfolio simulator.              *)
(*                                                                         *)
(* Numbers.  The program computes with binary floating point: every        *)
(* arithmetic operation yields the representable value nearest to its      *)
(* exact result.  The model keeps that: a number is an integer count of    *)
(* quanta of 2^-FracBits, sums and differences are exact, and products,    *)
(* quotients and powers are rounded to the nearest quantum (ties to even). *)
(* The cleanup tolerance 1e-8 is compared as the code compares it.         *)
(* A run counts its numbers in quanta of 2^-frac_bits.  Spec runs at       *)
(* FracBits, where the tolerance is below one quantum; SpecFine runs at    *)
(* FineBits, where it is one quantum, on principals of a few quanta.       *)
(* The precision is coarser than a double's 53 bits, so rounding residue   *)
(* shows at small magnitudes instead of large ones.                        *)
(*                                                                         *)
(* A double also holds only 53 significant bits, so a sum loses an addend  *)
(* that is small enough against it.  Spec leaves that out; SpecFloat keeps *)
(* the cash accumulator of the rolling simulator to Mantissa significant   *)
(* bits and runs it at a rate large enough for the loss to happen.         *)
(***************************************************************************)
EXTENDS Integers, Sequences, FiniteSets, TLC

\* ------------------------------------------------------------------ bounds
FracBits == 8
MaxPeriods == 3
MaxIssued == 10
Mantissa == 8

\* 2^-27 <= 1e-8 < 2^-26: the fewest fraction bits that tell a balance at
\* the tolerance from zero
FineBits == 27

VARIABLE frac_bits                \* the fraction bits of the run's numbers

\* -------------------------------------------------------------- arithmetic
RECURSIVE IPow(_, _)
IPow(b, e) == IF e <= 0 THEN 1 ELSE b * IPow(b, e - 1)

Scale == IPow(2, frac_bits)

Abs(x) == IF x < 0 THEN -x ELSE x

RECURSIVE Gcd(_, _)
Gcd(a, b) == IF b = 0 THEN a ELSE Gcd(b, a % b)

\* nearest integer to n/d (d # 0), ties to the even integer
RoundDiv(n, d) ==
    LET nn == IF d < 0 THEN -n ELSE n
        dd == Abs(d)
        q  == (2 * nn + dd) \div (2 * dd)
        tie == (2 * nn + dd) % (2 * dd) = 0
    IN  IF tie /\ q % 2 # 0 THEN q - 1 ELSE q

\* a whole number as quanta
Num(n) == n * Scale

FMul(a, b) == RoundDiv(a * b, Scale)
FDiv(a, b) == RoundDiv(a * Scale, b)

\* base ** e for an integer exponent e and base # 0 when e < 0
FPow(base, e) ==
    LET g == Gcd(Scale, Abs(base))
        a == Scale \div g
        b == base \div g
    IN  IF e >= 0 THEN RoundDiv(Scale * IPow(b, e), IPow(a, e))
        ELSE RoundDiv(Scale * IPow(a, -e), IPow(b, -e))

\* round(x, 2): the amount in hundredths
Round2(x) == RoundDiv(x * 100, Scale)

\* the tolerance 1e-8 of the balance cleanup, as 1/TolInv
TolInv == 100000000
\* x <= 1e-8 and abs(x) < 1e-8 for a number x of quanta
LeqTol(x) == x <= Scale \div TolInv
AbsLtTol(x) == IF Scale % TolInv = 0 THEN Abs(x) < Scale \div TolInv
               ELSE Abs(x) <= Scale \div TolInv

\* ------------------------------------------------------- payment formula
\* lines 3-8 and 70-75: the periodic rate and the fixed payment, or the
\* exception the arithmetic raises
ZDE == "ZeroDivisionError"

PaymentFormula(principal, annual_interest_rate, periods, periods_per_year) ==
    IF periods_per_year = 0 THEN [err |-> ZDE, r |-> 0, pmt |-> 0]
    ELSE LET r == RoundDiv(annual_interest_rate, periods_per_year)
         IN  IF r = 0
             THEN IF periods = 0 THEN [err |-> ZDE, r |-> r, pmt |-> 0]
                  ELSE [err |-> "", r |-> r, pmt |-> RoundDiv(principal, periods)]
             ELSE IF Scale + r = 0 /\ periods > 0
                  THEN [err |-> ZDE, r |-> r, pmt |-> 0]
                  ELSE LET den == Scale - FPow(Scale + r, -periods)
                       IN  IF den = 0 THEN [err |-> ZDE, r |-> r, pmt |-> 0]
                           ELSE [err |-> "", r |-> r,
                                 pmt |-> FDiv(FMul(principal, r), den)]

\* ------------------------------------------------- generate_pmt_schedule
\* lines 12-25: the records of periods per .. periods, from the balance
\* left after period per - 1
RECURSIVE PmtRecords(_, _, _, _, _)
PmtRecords(per, periods, balance, rate, pmt) ==
    IF per > periods THEN << >>
    ELSE LET interest_payment == FMul(balance, rate)
             principal_payment == pmt - interest_payment
             reduced == balance - principal_payment
             remaining_balance == IF AbsLtTol(reduced) THEN 0 ELSE reduced
         IN  << [Period |-> per,
                 Payment |-> Round2(pmt),
                 Principal |-> Round2(principal_payment),
                 Interest |-> Round2(interest_payment),
                 RemainingBalance |-> Round2(remaining_balance)] >>
             \o PmtRecords(per + 1, periods, remaining_balance, rate, pmt)

\* lines 1-27: the schedule returned, or the exception raised
PmtSchedule(P, annual_rate, periods, ppy) ==
    LET f == PaymentFormula(P, annual_rate, periods, ppy)
    IN  IF f.err # "" THEN [err |-> f.err, schedule |-> << >>]
        ELSE [err |-> "", schedule |-> PmtRecords(1, periods, P, f.r, f.pmt)]

\* ------------------------------------------------------------ input sets
\* None for an absent optional argument, Some(x) for a given one
None == {}
Some(x) == {x}
Val(opt) == CHOOSE x \in opt : TRUE

Principals == {Num(-1), Num(0), Num(3), Num(7), Num(10)}
\* the last rate is so high that (1 + r) ** -periods is lost against 1 when
\* subtracted from it, as a double loses it at 12% a period over 360 periods
AnnualRates == {-Scale, 0, Scale \div 2, Scale, 16 * Scale}
PeriodCounts == -1 .. MaxPeriods
PeriodsPerYear == {0, 1, 2}
LoanCaps == {None, Some(1), Some(2)}
\* the callable handed in: none (the default closure of lines 85-90), a
\* predicate that never issues, main's issue_condition, or any other
\* predicate of the caller, whose answers are free
Policies == {"None", "never", "issue_condition", "caller"}

\* ------------------------------------------------------------------ state
VARIABLES
    called,                      \* the function called, "" before the call
    pc,                          \* position in the call
    outcome,                     \* "" while running, "returned", or the exception
    principal, annual_interest_rate, total_periods, periods_per_year,
    max_loans, should_issue_loan, max_active_loans,
    r, pmt_single,
    active_loans, total_loans_issued, schedule,
    cumulative_payment_received, cumulative_interest_earned,
    ytd_payment_received,
    period, period_payment, period_interest, period_principal,
    i,                           \* position of `for loan in active_loans`
    loans_fully_paid,
    borrower_schedule,           \* the list generate_pmt_schedule returns
    lender_schedule,             \* the list generate_lender_schedule returns
    last_payment,                \* history: the loan payment just applied
    period_totals,               \* history: the unrounded totals of each period
    ledger,                      \* history: one entry per loan ever created
    policy_calls                 \* history: the policy calls of this period

args == <<principal, annual_interest_rate, total_periods, periods_per_year,
          max_loans, should_issue_loan, max_active_loans>>
locals == <<r, pmt_single>>
portfolio == <<active_loans, total_loans_issued, ytd_payment_received>>
cumulative == <<cumulative_payment_received, cumulative_interest_earned>>
totals == <<period_payment, period_interest, period_principal>>
inner == <<i, loans_fully_paid, last_payment>>
rolling == <<portfolio, cumulative, totals, inner, schedule, period,
             period_totals, ledger, policy_calls>>
single_loan == <<borrower_schedule, lender_schedule>>
vars == <<frac_bits, called, pc, outcome, args, locals, rolling, single_loan>>

Rolling == called = "generate_rolling_loans_schedule"

ValidConfig ==
    /\ principal > 0
    /\ annual_interest_rate >= 0
    /\ total_periods > 0
    /\ periods_per_year > 0

NoPayment == [id |-> 0, balance_before |-> 0, interest |-> 0,
              principal_payment |-> 0, pmt |-> 0]

Init ==
    /\ frac_bits = FracBits
    /\ called = ""
    /\ pc = "idle"
    /\ outcome = ""
    /\ principal = 0 /\ annual_interest_rate = 0
    /\ total_periods = 0 /\ periods_per_year = 0
    /\ max_loans = None /\ should_issue_loan = "None" /\ max_active_loans = None
    /\ r = 0 /\ pmt_single = 0
    /\ active_loans = << >>
    /\ total_loans_issued = 0
    /\ schedule = << >>
    /\ cumulative_payment_received = 0
    /\ cumulative_interest_earned = 0
    /\ ytd_payment_received = 0
    /\ period = 0
    /\ period_payment = 0 /\ period_interest = 0 /\ period_principal = 0
    /\ i = 0
    /\ loans_fully_paid = << >>
    /\ borrower_schedule = << >>
    /\ lender_schedule = << >>
    /\ last_payment = NoPayment
    /\ period_totals = << >>
    /\ ledger = << >>
    /\ policy_calls = << >>

\* ------------------------------------------- generate_rolling_loans_schedule
\* A loan is the dict of lines 77 and 128.  Its id (the count of loans issued
\* when it was created) is history: dicts that are equal in both fields were
\* issued in the same period and stay equal, so list.remove, which takes the
\* first equal element, leaves the same list as removing the loan itself.
Loan(n, start, balance) ==
    [id |-> n, start_period |-> start, remaining_balance |-> balance]

Entry(start) ==
    [start_period |-> start, first_paid |-> 0, last_paid |-> 0, removed |-> 0]

\* line 78
InitialLoansIssued == 1

\* lines 62-90: the call up to the period loop
Call(P, rate, n, ppy, cap, policy, active_cap) ==
    /\ pc = "idle"
    /\ called' = "generate_rolling_loans_schedule"
    /\ principal' = P
    /\ annual_interest_rate' = rate
    /\ total_periods' = n
    /\ periods_per_year' = ppy
    /\ max_loans' = cap
    /\ should_issue_loan' = policy
    /\ max_active_loans' = active_cap
    /\ LET f == PaymentFormula(P, rate, n, ppy)
       IN  /\ r' = f.r
           /\ pmt_single' = f.pmt
           /\ IF f.err # ""
              THEN /\ pc' = "raised"
                   /\ outcome' = f.err
                   /\ UNCHANGED <<active_loans, total_loans_issued, ledger>>
              ELSE /\ pc' = "for"
                   /\ outcome' = ""
                   /\ active_loans' = << Loan(1, 1, P) >>
                   /\ total_loans_issued' = InitialLoansIssued
                   /\ ledger' = << Entry(1) >>
    /\ UNCHANGED <<frac_bits, schedule, cumulative, ytd_payment_received, period,
                   totals, inner, period_totals, policy_calls, single_loan>>

\* lines 92-97: the next period begins
BeginPeriod ==
    /\ pc = "for"
    /\ period < total_periods
    /\ period' = period + 1
    /\ period_payment' = 0
    /\ period_interest' = 0
    /\ period_principal' = 0
    /\ loans_fully_paid' = << >>
    /\ i' = 1
    /\ last_payment' = NoPayment
    /\ policy_calls' = << >>
    /\ pc' = "loans"
    /\ UNCHANGED <<frac_bits, called, outcome, args, locals, portfolio, cumulative,
                   schedule, period_totals, ledger, single_loan>>

\* Serviceable with the age test off by one
ServiceableLate(loan, per) ==
    LET loan_age == per - loan.start_period + 1
    IN  loan.remaining_balance > 0 /\ loan_age > 1

\* lines 99-100: the loan is due a payment in period per
Serviceable(loan, per) ==
    LET loan_age == per - loan.start_period + 1
    IN  loan.remaining_balance > 0 /\ loan_age > 0

\* Payment without the final-payment correction of lines 104-106
PaymentUnclamped(balance) ==
    LET interest == FMul(balance, r)
    IN  [interest |-> interest, principal_payment |-> pmt_single - interest,
         pmt |-> pmt_single]

\* Payment whose final-payment correction keeps the fixed payment
PaymentNotRecomputed(balance) ==
    LET interest == FMul(balance, r)
        tentative == pmt_single - interest
    IN  [interest |-> interest,
         principal_payment |-> IF tentative > balance THEN balance ELSE tentative,
         pmt |-> pmt_single]

\* lines 101-108: interest, principal portion and payment on a balance
Payment(balance) ==
    LET interest == FMul(balance, r)
        tentative == pmt_single - interest
    IN  IF tentative > balance
        THEN [interest |-> interest, principal_payment |-> balance,
              pmt |-> balance + interest]
        ELSE [interest |-> interest, principal_payment |-> tentative,
              pmt |-> pmt_single]

\* PaidOff with a strict test against zero
PaidOffStrict(balance) == balance < 0

\* line 116
PaidOff(balance) == LeqTol(balance)

\* lines 98-117: the loop body for a loan that is serviced
ServiceLoan ==
    /\ pc = "loans"
    /\ i <= Len(active_loans)
    /\ Serviceable(active_loans[i], period)
    /\ LET loan == active_loans[i]
           pay == Payment(loan.remaining_balance)
           paid == [loan EXCEPT !.remaining_balance = @ - pay.principal_payment]
       IN  /\ active_loans' = [active_loans EXCEPT ![i] = paid]
           /\ period_payment' = period_payment + pay.pmt
           /\ period_interest' = period_interest + pay.interest
           /\ period_principal' = period_principal + pay.principal_payment
           /\ loans_fully_paid' =
                IF PaidOff(paid.remaining_balance)
                THEN Append(loans_fully_paid, paid) ELSE loans_fully_paid
           /\ last_payment' = [id |-> loan.id,
                               balance_before |-> loan.remaining_balance,
                               interest |-> pay.interest,
                               principal_payment |-> pay.principal_payment,
                               pmt |-> pay.pmt]
           /\ ledger' = [ledger EXCEPT
                ![loan.id].first_paid = IF @ = 0 THEN period ELSE @,
                ![loan.id].last_paid = period]
    /\ i' = i + 1
    /\ UNCHANGED <<frac_bits, called, pc, outcome, args, locals, total_loans_issued,
                   ytd_payment_received, cumulative, schedule, period,
                   period_totals, policy_calls, single_loan>>

\* lines 98-100: the loop body for a loan that is not serviced
SkipLoan ==
    /\ pc = "loans"
    /\ i <= Len(active_loans)
    /\ ~Serviceable(active_loans[i], period)
    /\ i' = i + 1
    /\ last_payment' = NoPayment
    /\ UNCHANGED <<frac_bits, called, pc, outcome, args, locals, portfolio, cumulative,
                   totals, loans_fully_paid, schedule, period, period_totals,
                   ledger, policy_calls, single_loan>>

\* list.remove(x): the list without its first element equal to x
RECURSIVE Remove(_, _)
Remove(list, x) ==
    IF list = << >> THEN << >>
    ELSE IF Head(list) = x THEN Tail(list)
         ELSE << Head(list) >> \o Remove(Tail(list), x)

\* lines 119-120
RECURSIVE RemoveAll(_, _)
RemoveAll(list, paid) ==
    IF paid = << >> THEN list
    ELSE RemoveAll(Remove(list, Head(paid)), Tail(paid))

\* an accumulator that restarts from the period's total
AccumulateReset(acc, amount) == amount

\* lines 122-124: an accumulator takes the period's total
Accumulate(acc, amount) == acc + amount

\* lines 119-124: the loans paid off leave the active list, and the period's
\* totals go to the accumulators
RemovePaid ==
    /\ pc = "loans"
    /\ i > Len(active_loans)
    /\ active_loans' = RemoveAll(active_loans, loans_fully_paid)
    /\ ledger' = [k \in 1 .. Len(ledger) |->
            IF \E j \in 1 .. Len(loans_fully_paid) : loans_fully_paid[j].id = k
            THEN [ledger[k] EXCEPT !.removed = period] ELSE ledger[k]]
    /\ cumulative_payment_received' =
            Accumulate(cumulative_payment_received, period_payment)
    /\ cumulative_interest_earned' =
            Accumulate(cumulative_interest_earned, period_interest)
    /\ ytd_payment_received' = Accumulate(ytd_payment_received, period_payment)
    /\ pc' = "while"
    /\ UNCHANGED <<frac_bits, called, outcome, args, locals, total_loans_issued, totals,
                   inner, schedule, period, period_totals, policy_calls,
                   single_loan>>

\* PolicyAnswers with the default closure's comparison off by one
PolicyAnswersInclusive(per, total_issued, active_count) ==
    CASE should_issue_loan = "None" ->
            IF max_loans = None THEN {TRUE}
            ELSE {total_issued <= Val(max_loans)}
      [] should_issue_loan = "never" -> {FALSE}
      [] should_issue_loan = "issue_condition" ->
            IF max_loans # None /\ total_issued >= Val(max_loans) THEN {FALSE}
            ELSE IF max_active_loans # None /\ active_count >= Val(max_active_loans)
                 THEN {FALSE}
                 ELSE {TRUE}
      [] OTHER -> BOOLEAN

\* lines 85-90 and 225-230, and the caller's own predicates: the answers a
\* call should_issue_loan(per, total_issued, active_count) can give
PolicyAnswers(per, total_issued, active_count) ==
    CASE should_issue_loan = "None" ->
            IF max_loans = None THEN {TRUE}
            ELSE {total_issued < Val(max_loans)}
      [] should_issue_loan = "never" -> {FALSE}
      [] should_issue_loan = "issue_condition" ->
            IF max_loans # None /\ total_issued >= Val(max_loans) THEN {FALSE}
            ELSE IF max_active_loans # None /\ active_count >= Val(max_active_loans)
                 THEN {FALSE}
                 ELSE {TRUE}
      [] OTHER -> BOOLEAN

\* PolicyCall with the active count taken before this period's removals
PolicyCallStale(answer) ==
    [period |-> period, total_issued |-> total_loans_issued,
     active_count |-> Len(active_loans) + Len(loans_fully_paid),
     answer |-> answer]

\* line 127: the arguments of the call, and its answer
PolicyCall(answer) ==
    [period |-> period, total_issued |-> total_loans_issued,
     active_count |-> Len(active_loans), answer |-> answer]

\* CanFund that asks for any cash at all
CanFundEarly == ytd_payment_received > 0

\* line 126
CanFund == ytd_payment_received >= principal

\* lines 126-130: the accumulator covers a principal and the policy agrees
IssueLoan ==
    /\ pc = "while"
    /\ CanFund
    /\ total_loans_issued < MaxIssued
    /\ TRUE \in PolicyAnswers(period, total_loans_issued, Len(active_loans))
    /\ policy_calls' = Append(policy_calls, PolicyCall(TRUE))
    /\ active_loans' = Append(active_loans,
                              Loan(total_loans_issued + 1, period, principal))
    /\ total_loans_issued' = total_loans_issued + 1
    /\ ytd_payment_received' = ytd_payment_received - principal
    /\ ledger' = Append(ledger, Entry(period))
    /\ UNCHANGED <<frac_bits, called, pc, outcome, args, locals, cumulative, totals, inner,
                   schedule, period, period_totals, single_loan>>

\* DeclineLoan without the break: the loop asks again
DeclineLoanRetry ==
    /\ pc = "while"
    /\ CanFund
    /\ Len(policy_calls) < MaxIssued
    /\ FALSE \in PolicyAnswers(period, total_loans_issued, Len(active_loans))
    /\ policy_calls' = Append(policy_calls, PolicyCall(FALSE))
    /\ UNCHANGED <<frac_bits, called, pc, outcome, args, locals, portfolio, cumulative,
                   totals, inner, schedule, period, period_totals, ledger,
                   single_loan>>

\* lines 126-127 and 131-132: the policy declines and the loop is left
DeclineLoan ==
    /\ pc = "while"
    /\ CanFund
    /\ FALSE \in PolicyAnswers(period, total_loans_issued, Len(active_loans))
    /\ policy_calls' = Append(policy_calls, PolicyCall(FALSE))
    /\ pc' = "append"
    /\ UNCHANGED <<frac_bits, called, outcome, args, locals, portfolio, cumulative, totals,
                   inner, schedule, period, period_totals, ledger,
                   single_loan>>

RECURSIVE SumOver(_, _)
SumOver(seq, field) ==
    IF seq = << >> THEN 0 ELSE Head(seq)[field] + SumOver(Tail(seq), field)

\* line 139: sum(loan['remaining_balance'] for loan in active_loans)
RemainingPrincipal(loans) == SumOver(loans, "remaining_balance")

\* Record with the portfolio as it was before the period's issuances
RecordBeforeIssuance ==
    LET issued == Cardinality({k \in 2 .. Len(ledger) :
                                    ledger[k].start_period = period})
    IN  [Period |-> period,
         PaymentReceived |-> Round2(period_payment),
         InterestIncome |-> Round2(period_interest),
         PrincipalRepaid |-> Round2(period_principal),
         RemainingPrincipal |->
             Round2(RemainingPrincipal(active_loans) - issued * principal),
         YTDInterestIncome |-> Round2(cumulative_interest_earned),
         YTDPaymentReceived |-> Round2(cumulative_payment_received),
         ActiveLoansCount |-> Len(active_loans) - issued,
         TotalLoansIssued |-> total_loans_issued - issued]

\* lines 134-144: the period's record, amounts in hundredths
Record ==
    [Period |-> period,
     PaymentReceived |-> Round2(period_payment),
     InterestIncome |-> Round2(period_interest),
     PrincipalRepaid |-> Round2(period_principal),
     RemainingPrincipal |-> Round2(RemainingPrincipal(active_loans)),
     YTDInterestIncome |-> Round2(cumulative_interest_earned),
     YTDPaymentReceived |-> Round2(cumulative_payment_received),
     ActiveLoansCount |-> Len(active_loans),
     TotalLoansIssued |-> total_loans_issued]

\* lines 126 and 134-144: the issuance loop is over (its condition fails, or
\* the policy declined) and the period's record is appended
AppendRecord ==
    /\ \/ pc = "while" /\ ~CanFund
       \/ pc = "append"
    /\ schedule' = Append(schedule, Record)
    /\ period_totals' = Append(period_totals,
            [payment |-> period_payment, interest |-> period_interest,
             principal |-> period_principal,
             remaining |-> RemainingPrincipal(active_loans)])
    /\ pc' = "for"
    /\ UNCHANGED <<frac_bits, called, outcome, args, locals, portfolio, cumulative, totals,
                   inner, period, ledger, policy_calls, single_loan>>

\* lines 92 and 146: the period loop is exhausted
Return ==
    /\ pc = "for"
    /\ ~(period < total_periods)
    /\ pc' = "done"
    /\ outcome' = "returned"
    /\ UNCHANGED <<frac_bits, called, args, locals, rolling, single_loan>>

\* lines 1-27: a call of generate_pmt_schedule
GeneratePmtSchedule(P, rate, n, ppy) ==
    /\ pc = "idle"
    /\ called' = "generate_pmt_schedule"
    /\ principal' = P
    /\ annual_interest_rate' = rate
    /\ total_periods' = n
    /\ periods_per_year' = ppy
    /\ LET res == PmtSchedule(P, rate, n, ppy)
       IN  /\ borrower_schedule' = res.schedule
           /\ outcome' = IF res.err # "" THEN res.err ELSE "returned"
           /\ pc' = IF res.err # "" THEN "raised" ELSE "done"
    /\ UNCHANGED <<frac_bits, max_loans, should_issue_loan, max_active_loans,
                   locals, rolling, lender_schedule>>

GeneratePmtScheduleAny ==
    /\ pc = "idle"
    /\ \E P \in Principals, rate \in AnnualRates, n \in PeriodCounts,
          ppy \in PeriodsPerYear :
        GeneratePmtSchedule(P, rate, n, ppy)

\* LenderAccumulate that restarts from the entry's amount
LenderAccumulateReset(acc, amount) == amount

\* lines 44-45: a running total takes the entry's amount
LenderAccumulate(acc, amount) == acc + amount

\* lines 36-55: the records made from the entries, from the running totals
\* before them; the entries hold hundredths, and so do the totals
RECURSIVE LenderRecords(_, _, _)
LenderRecords(entries, cumulative_interest, cumulative_payment) ==
    IF entries = << >> THEN << >>
    ELSE LET entry == Head(entries)
             interest == LenderAccumulate(cumulative_interest, entry.Interest)
             payment == LenderAccumulate(cumulative_payment, entry.Payment)
         IN  << [Period |-> entry.Period,
                 PaymentReceived |-> entry.Payment,
                 InterestIncome |-> entry.Interest,
                 PrincipalRepaid |-> entry.Principal,
                 RemainingPrincipal |-> entry.RemainingBalance,
                 YTDInterestIncome |-> interest,
                 YTDPaymentReceived |-> payment] >>
             \o LenderRecords(Tail(entries), interest, payment)

\* lines 30-57: the schedule returned, or the exception raised
LenderSchedule(P, annual_rate, periods, ppy) ==
    LET res == PmtSchedule(P, annual_rate, periods, ppy)
    IN  [err |-> res.err, borrower_schedule |-> res.schedule,
         schedule |-> LenderRecords(res.schedule, 0, 0)]

\* lines 30-57: a call of generate_lender_schedule
GenerateLenderSchedule(P, rate, n, ppy) ==
    /\ pc = "idle"
    /\ called' = "generate_lender_schedule"
    /\ principal' = P
    /\ annual_interest_rate' = rate
    /\ total_periods' = n
    /\ periods_per_year' = ppy
    /\ LET res == LenderSchedule(P, rate, n, ppy)
       IN  /\ borrower_schedule' = res.borrower_schedule
           /\ lender_schedule' = res.schedule
           /\ outcome' = IF res.err # "" THEN res.err ELSE "returned"
           /\ pc' = IF res.err # "" THEN "raised" ELSE "done"
    /\ UNCHANGED <<frac_bits, max_loans, should_issue_loan, max_active_loans,
                   locals, rolling>>

GenerateLenderScheduleAny ==
    /\ pc = "idle"
    /\ \E P \in Principals, rate \in AnnualRates, n \in PeriodCounts,
          ppy \in PeriodsPerYear :
        GenerateLenderSchedule(P, rate, n, ppy)

CallAny ==
    /\ pc = "idle"
    /\ \E P \in Principals, rate \in AnnualRates, n \in PeriodCounts,
          ppy \in PeriodsPerYear, cap \in LoanCaps, policy \in Policies,
          active_cap \in LoanCaps :
        \* max_loans is read by the default closure and by issue_condition,
        \* max_active_loans by issue_condition only
        /\ policy \in {"never", "caller"} => cap = None
        /\ policy # "issue_condition" => active_cap = None
        /\ Call(P, rate, n, ppy, cap, policy, active_cap)

Next ==
    \/ GeneratePmtScheduleAny
    \/ GenerateLenderScheduleAny
    \/ CallAny
    \/ BeginPeriod
    \/ ServiceLoan
    \/ SkipLoan
    \/ RemovePaid
    \/ IssueLoan
    \/ DeclineLoan
    \/ AppendRecord
    \/ Return

Spec == Init /\ [][Next]_vars

\* ------------------------------------------- the accumulator as a float
RECURSIVE BitLength(_)
BitLength(n) == IF n = 0 THEN 0 ELSE 1 + BitLength(n \div 2)

\* the number of Mantissa significant bits nearest to x, ties to even
RoundSig(x) ==
    LET excess == BitLength(Abs(x)) - Mantissa
    IN  IF excess <= 0 THEN x
        ELSE RoundDiv(x, IPow(2, excess)) * IPow(2, excess)

\* line 124: ytd_payment_received += period_payment
FloatAdd(a, b) == RoundSig(a + b)

\* line 130: ytd_payment_received -= principal
FloatSub(a, b) == RoundSig(a - b)

\* a rate per period of 1024: the first payment is 1025 principals
LargeRate == 1024 * Scale

\* lines 119-124, the accumulator a float
RemovePaidFloat ==
    /\ pc = "loans"
    /\ i > Len(active_loans)
    /\ active_loans' = RemoveAll(active_loans, loans_fully_paid)
    /\ ledger' = [k \in 1 .. Len(ledger) |->
            IF \E j \in 1 .. Len(loans_fully_paid) : loans_fully_paid[j].id = k
            THEN [ledger[k] EXCEPT !.removed = period] ELSE ledger[k]]
    /\ cumulative_payment_received' =
            Accumulate(cumulative_payment_received, period_payment)
    /\ cumulative_interest_earned' =
            Accumulate(cumulative_interest_earned, period_interest)
    /\ ytd_payment_received' = FloatAdd(ytd_payment_received, period_payment)
    /\ pc' = "while"
    /\ UNCHANGED <<frac_bits, called, outcome, args, locals, total_loans_issued, totals,
                   inner, schedule, period, period_totals, policy_calls,
                   single_loan>>

\* lines 126-130, the accumulator a float
IssueLoanFloat ==
    /\ pc = "while"
    /\ CanFund
    /\ total_loans_issued < MaxIssued
    /\ TRUE \in PolicyAnswers(period, total_loans_issued, Len(active_loans))
    /\ policy_calls' = Append(policy_calls, PolicyCall(TRUE))
    /\ active_loans' = Append(active_loans,
                              Loan(total_loans_issued + 1, period, principal))
    /\ total_loans_issued' = total_loans_issued + 1
    /\ ytd_payment_received' = FloatSub(ytd_payment_received, principal)
    /\ ledger' = Append(ledger, Entry(period))
    /\ UNCHANGED <<frac_bits, called, pc, outcome, args, locals, cumulative, totals, inner,
                   schedule, period, period_totals, single_loan>>

\* the calls of CallAny, and those at the large rate, which run for one
\* period of a one-period year
CallAnyFloat ==
    /\ pc = "idle"
    /\ \E P \in Principals, rate \in AnnualRates \cup {LargeRate},
          n \in PeriodCounts, ppy \in PeriodsPerYear, cap \in LoanCaps,
          policy \in Policies, active_cap \in LoanCaps :
        /\ policy \in {"never", "caller"} => cap = None
        /\ policy # "issue_condition" => active_cap = None
        /\ rate = LargeRate => n = 1 /\ ppy = 1
        /\ Call(P, rate, n, ppy, cap, policy, active_cap)

NextFloat ==
    \/ CallAnyFloat
    \/ BeginPeriod
    \/ ServiceLoan
    \/ SkipLoan
    \/ RemovePaidFloat
    \/ IssueLoanFloat
    \/ DeclineLoan
    \/ AppendRecord
    \/ Return

SpecFloat == Init /\ [][NextFloat]_vars

\* ------------------------------------------- amounts near the tolerance
\* principals of a few quanta of 2^-FineBits, 2 quanta being 1.49e-8
FinePrincipals == {-3, 0, 2, 6, 12}

\* the state after construction, the numbers counted in the fine quanta
InitFine ==
    /\ frac_bits = FineBits
    /\ called = ""
    /\ pc = "idle"
    /\ outcome = ""
    /\ principal = 0 /\ annual_interest_rate = 0
    /\ total_periods = 0 /\ periods_per_year = 0
    /\ max_loans = None /\ should_issue_loan = "None" /\ max_active_loans = None
    /\ r = 0 /\ pmt_single = 0
    /\ active_loans = << >>
    /\ total_loans_issued = 0
    /\ schedule = << >>
    /\ cumulative_payment_received = 0
    /\ cumulative_interest_earned = 0
    /\ ytd_payment_received = 0
    /\ period = 0
    /\ period_payment = 0 /\ period_interest = 0 /\ period_principal = 0
    /\ i = 0
    /\ loans_fully_paid = << >>
    /\ borrower_schedule = << >>
    /\ lender_schedule = << >>
    /\ last_payment = NoPayment
    /\ period_totals = << >>
    /\ ledger = << >>
    /\ policy_calls = << >>

\* the calls on the fine principals, at a rate of zero
CallAnyFine ==
    /\ pc = "idle"
    /\ \E P \in FinePrincipals, n \in PeriodCounts, ppy \in PeriodsPerYear,
          cap \in LoanCaps, policy \in Policies, active_cap \in LoanCaps :
        /\ policy \in {"never", "caller"} => cap = None
        /\ policy # "issue_condition" => active_cap = None
        /\ Call(P, 0, n, ppy, cap, policy, active_cap)

NextFine ==
    \/ CallAnyFine
    \/ BeginPeriod
    \/ ServiceLoan
    \/ SkipLoan
    \/ RemovePaid
    \/ IssueLoan
    \/ DeclineLoan
    \/ AppendRecord
    \/ Return

SpecFine == InitFine /\ [][NextFine]_vars

\* ------------------------------------------------------------------ claims
Running == Rolling /\ pc # "raised"

\* the call has raised before anything was simulated
RejectedUpFront ==
    /\ pc = "raised"
    /\ active_loans = << >> /\ ledger = << >> /\ total_loans_issued = 0
    /\ schedule = << >> /\ period = 0 /\ policy_calls = << >>

\* C1: a call of generate_rolling_loans_schedule with an invalid
\* configuration (principal <= 0, annual rate < 0, total_periods <= 0 or
\* periods_per_year <= 0) ends in an error raised before any period is
\* simulated: no loan is seeded, no record is produced, neither loop runs.
C1_InvalidConfigRejected ==
    (Rolling /\ ~ValidConfig) => RejectedUpFront

\* C2: with periods = 0 the payment formula of generate_pmt_schedule and of
\* generate_rolling_loans_schedule is refused as an InvalidArgument
\* precondition violation, not by a division by zero that propagates.
C2_ZeroPeriodsInvalidArgument ==
    (/\ called # ""
     /\ principal > 0 /\ annual_interest_rate >= 0 /\ periods_per_year > 0
     /\ total_periods = 0)
        => (pc = "raised" /\ outcome = "InvalidArgument")

\* C3: with a valid configuration and any issuance policy,
\* total_loans_issued is 1 at the start, at least 1 ever after and never
\* lower in a record than in the record before, and no active loan's
\* balance, nor their sum, is ever negative.
C3_IssuedCountAndBalances ==
    (Running /\ ValidConfig) =>
        /\ total_loans_issued >= 1
        /\ period = 0 => total_loans_issued = 1
        /\ \A k \in 1 .. Len(schedule) :
            /\ schedule[k].TotalLoansIssued >= 1
            /\ schedule[k].TotalLoansIssued <= total_loans_issued
            /\ schedule[k].RemainingPrincipal >= 0
            /\ k > 1 => schedule[k - 1].TotalLoansIssued
                            <= schedule[k].TotalLoansIssued
        /\ \A j \in 1 .. Len(active_loans) :
            active_loans[j].remaining_balance >= 0
        /\ RemainingPrincipal(active_loans) >= 0

\* C3 witness: a valid run has issued loans in two periods and has paid a
\* loan off, with other loans still active
C3_Witness ==
    /\ Running /\ ValidConfig /\ pc = "done"
    /\ Len(schedule) >= 3
    /\ schedule[1].TotalLoansIssued < schedule[2].TotalLoansIssued
    /\ schedule[2].TotalLoansIssued < schedule[3].TotalLoansIssued
    /\ ledger[1].removed > 0
    /\ active_loans # << >>

\* the periods completed: their records are in the schedule
BetweenPeriods == Running /\ pc \in {"for", "done"}

\* C4: after k period advances the cumulative payment accumulator is the
\* sum of the k period payment totals produced so far, and the cumulative
\* interest the sum of the k period interest totals; neither is reset or
\* reduced, by an issuance or otherwise.
C4_CumulativeIsSumOfPeriods ==
    /\ BetweenPeriods =>
        /\ Len(period_totals) = period
        /\ Len(schedule) = period
        /\ cumulative_payment_received = SumOver(period_totals, "payment")
        /\ cumulative_interest_earned = SumOver(period_totals, "interest")
    /\ (Running /\ pc \in {"while", "append"}) =>
        /\ cumulative_payment_received
            = SumOver(period_totals, "payment") + period_payment
        /\ cumulative_interest_earned
            = SumOver(period_totals, "interest") + period_interest

\* C4 witness: three periods are done, each with a payment, and loans were
\* issued from the proceeds
C4_Witness ==
    /\ BetweenPeriods /\ ValidConfig
    /\ period = 3
    /\ \A k \in 1 .. 3 : period_totals[k].payment > 0
    /\ total_loans_issued > 2
    /\ cumulative_interest_earned > 0

\* C5: with a policy that always answers false, total_loans_issued is 1 in
\* every record, no loan joins the active list, and the run reaches a state
\* with no active loan (the seed loan reaches zero and is removed without a
\* replacement) while the cash accumulator keeps every payment received.
\* Nothing is issued, so an active list once empty stays empty: the run
\* reaches such a state exactly when it ends in one.
C5_NeverIssueDrains ==
    (Running /\ ValidConfig /\ should_issue_loan = "never") =>
        /\ total_loans_issued = 1
        /\ Len(ledger) = 1
        /\ \A k \in 1 .. Len(schedule) : schedule[k].TotalLoansIssued = 1
        /\ pc \in {"while", "append", "for", "done"} =>
                ytd_payment_received = cumulative_payment_received
        /\ pc = "done" => active_loans = << >>

\* the period's loan loop is over
Serviced == Running /\ pc \in {"while", "append", "for", "done"}

\* C6: every loan, the seed loan and every loan issued later, receives its
\* first payment in the period whose index is its start_period.
C6_FirstPaymentAtStartPeriod ==
    (Serviced /\ ValidConfig) =>
        \A k \in 1 .. Len(ledger) :
            /\ ledger[k].first_paid # 0 =>
                    ledger[k].first_paid = ledger[k].start_period
            /\ ledger[k].start_period < period => ledger[k].first_paid # 0

\* C6 as amended: the seed loan receives its first payment in its
\* start_period, period 1; a loan issued later receives none in its
\* start_period and its first in the period after it, when the run has one.
C6_FirstPaymentAfterIssue ==
    (Serviced /\ ValidConfig) =>
        /\ period >= 1 => ledger[1].first_paid = 1 /\ ledger[1].start_period = 1
        /\ \A k \in 2 .. Len(ledger) :
            /\ ledger[k].first_paid # 0 =>
                    ledger[k].first_paid = ledger[k].start_period + 1
            /\ ledger[k].start_period < period => ledger[k].first_paid # 0
            /\ ledger[k].start_period <= period

\* C6 witness: a loan issued in period 1 got its first payment in period 2
\* and a loan issued in period 2 is waiting for its first
C6_Witness ==
    /\ Serviced /\ ValidConfig
    /\ period = 2
    /\ Len(ledger) >= 3
    /\ ledger[1].first_paid = 1
    /\ ledger[2].start_period = 1 /\ ledger[2].first_paid = 2
    /\ ledger[3].start_period = 2 /\ ledger[3].first_paid = 0

\* the loans issued in the current period, and the policy's agreements
IssuedThisPeriod ==
    Cardinality({k \in 2 .. Len(ledger) : ledger[k].start_period = period})
Agreed == Cardinality({j \in 1 .. Len(policy_calls) : policy_calls[j].answer})

\* C7: within a period, once the policy has answered false no further loan
\* is issued and the policy is not asked again, even when the accumulator
\* still covers a principal; issuance is tried again only in a later period.
C7_DeclineEndsIssuance ==
    Running =>
        /\ \A j \in 1 .. Len(policy_calls) - 1 : policy_calls[j].answer
        /\ \A j \in 1 .. Len(policy_calls) : policy_calls[j].period = period
        /\ IssuedThisPeriod = Agreed
        /\ pc = "append" <=>
                (policy_calls # << >> /\ pc \in {"while", "append"}
                    /\ ~policy_calls[Len(policy_calls)].answer)

\* C7 witness: in period 2 the policy agreed once and then declined with a
\* principal still in the accumulator, after having declined in period 1
C7_Witness ==
    /\ Running /\ ValidConfig /\ pc = "append" /\ CanFund
    /\ period = 2
    /\ Len(policy_calls) = 2
    /\ schedule[1].TotalLoansIssued = 1

\* the loans among the first n issued that are still active
ActiveAmong(n) == Cardinality({k \in 1 .. n : ledger[k].removed = 0})

\* C8: the policy is called once for each candidate issuance, with the
\* current period, the loans issued so far and the active-loan count, both
\* counting the loans issued earlier in the period and not the loans removed
\* in it; no answer stands for a later candidate.
C8_PolicyCalledFresh ==
    Running =>
        /\ IssuedThisPeriod = Agreed
        /\ \A j \in 1 .. Len(policy_calls) :
            LET before == total_loans_issued - Agreed + Cardinality(
                    {h \in 1 .. j - 1 : policy_calls[h].answer})
            IN  /\ policy_calls[j].period = period
                /\ policy_calls[j].total_issued = before
                /\ policy_calls[j].active_count = ActiveAmong(before)

\* C8 witness: the seed loan was removed in this period and the policy was
\* then called for a second candidate
C8_Witness ==
    /\ Running /\ ValidConfig
    /\ ledger[1].removed = period
    /\ Len(policy_calls) >= 2
    /\ policy_calls[2].total_issued = policy_calls[1].total_issued + 1
    /\ policy_calls[2].active_count = policy_calls[1].active_count + 1
    /\ policy_calls[1].active_count < policy_calls[1].total_issued

\* C9: without a policy from the caller, a loan is issued every time the
\* accumulator covers a principal when max_loans is None, and every time it
\* does and total_loans_issued < M when max_loans = M >= 1; then
\* total_loans_issued exceeds M in no record.
C9_DefaultPolicy ==
    (Running /\ should_issue_loan = "None") =>
        /\ \A j \in 1 .. Len(policy_calls) :
            policy_calls[j].answer
                <=> (max_loans = None
                        \/ policy_calls[j].total_issued < Val(max_loans))
        /\ max_loans = None => pc # "append"
        /\ (max_loans # None /\ pc = "append") =>
                total_loans_issued >= Val(max_loans)
        \* a period ends with less than a principal in hand, or at the cap
        /\ (pc \in {"for", "done"} /\ period >= 1 /\ CanFund) =>
                (max_loans # None /\ total_loans_issued >= Val(max_loans))
        /\ (max_loans # None /\ Val(max_loans) >= 1) =>
            /\ total_loans_issued <= Val(max_loans)
            /\ \A k \in 1 .. Len(schedule) :
                    schedule[k].TotalLoansIssued <= Val(max_loans)

\* C9 witness: the default policy let a second loan be issued and then
\* declined at max_loans = 2 with a principal still in the accumulator
C9_Witness ==
    /\ Running /\ ValidConfig /\ should_issue_loan = "None"
    /\ max_loans = Some(2)
    /\ pc = "append" /\ CanFund
    /\ total_loans_issued = 2
    /\ Len(schedule) >= 1

\* some active loan carries the id
Active(k) == \E j \in 1 .. Len(active_loans) : active_loans[j].id = k

C11_PaymentSplit ==
    Running =>
        /\ last_payment.id # 0 =>
            /\ last_payment.principal_payment <= last_payment.balance_before
            /\ pmt_single - last_payment.interest > last_payment.balance_before
                => last_payment.principal_payment = last_payment.balance_before
            /\ last_payment.pmt
                = last_payment.principal_payment + last_payment.interest
        /\ period_payment = period_interest + period_principal
        /\ \A k \in 1 .. Len(period_totals) :
            period_totals[k].payment
                = period_totals[k].interest + period_totals[k].principal

\* C11 witness: the seed loan's final payment was cut down to the balance
\* left, with other loans in the portfolio
C11_Witness ==
    /\ Running /\ ValidConfig /\ pc = "loans"
    /\ last_payment.id = 1
    /\ last_payment.principal_payment = last_payment.balance_before
    /\ last_payment.pmt < pmt_single
    /\ last_payment.interest > 0
    /\ Len(active_loans) >= 2

\* generate_pmt_schedule has returned
SingleLoanDone == called = "generate_pmt_schedule" /\ pc = "done"

\* C12: for every valid single-loan input (P > 0, r >= 0, n >= 1) the
\* schedule has exactly n records, their principal portions sum to P, the
\* last record's remaining balance is 0, and with r = 0 the payment is P/n.
\* The fields are hundredths rounded one by one: the sum is taken to be P
\* when it is within one hundredth per record of it.
C12_SingleLoanRetires ==
    (SingleLoanDone /\ ValidConfig) =>
        /\ Len(borrower_schedule) = total_periods
        /\ \A k \in 1 .. Len(borrower_schedule) : borrower_schedule[k].Period = k
        /\ Abs(SumOver(borrower_schedule, "Principal") - Round2(principal))
                <= total_periods
        /\ borrower_schedule[total_periods].RemainingBalance = 0
        /\ annual_interest_rate = 0 =>
            \A k \in 1 .. Len(borrower_schedule) :
                borrower_schedule[k].Payment
                    = Round2(RoundDiv(principal, total_periods))

LenderDone == called = "generate_lender_schedule" /\ pc = "done"

\* C13: in the schedule generate_lender_schedule returns, the cumulative
\* interest and the cumulative payment of record k are the totals of the
\* interest and the payment of entries 1 .. k of the single-loan schedule:
\* the first record holds the first entry's amounts (the totals start at 0),
\* no record holds less than the one before it, and the record after a year
\* boundary still holds everything from period 1 on.
C13_LenderRunningTotals ==
    (LenderDone /\ ValidConfig) =>
        /\ Len(lender_schedule) = Len(borrower_schedule)
        /\ \A k \in 1 .. Len(lender_schedule) :
            /\ lender_schedule[k].YTDInterestIncome
                = SumOver(SubSeq(borrower_schedule, 1, k), "Interest")
            /\ lender_schedule[k].YTDPaymentReceived
                = SumOver(SubSeq(borrower_schedule, 1, k), "Payment")
            /\ k > 1 =>
                /\ lender_schedule[k].YTDInterestIncome
                    >= lender_schedule[k - 1].YTDInterestIncome
                /\ lender_schedule[k].YTDPaymentReceived
                    >= lender_schedule[k - 1].YTDPaymentReceived

\* a lender schedule that runs past a year boundary with interest and
\* payments on both sides of it
C13_Witness ==
    /\ LenderDone /\ ValidConfig
    /\ Len(lender_schedule) > periods_per_year
    /\ lender_schedule[periods_per_year].YTDInterestIncome > 0
    /\ lender_schedule[periods_per_year + 1].InterestIncome > 0
    /\ lender_schedule[periods_per_year + 1].YTDPaymentReceived
        > lender_schedule[periods_per_year + 1].PaymentReceived
\* an issuance of the period's loop
Issuance == pc = "while" /\ total_loans_issued' = total_loans_issued + 1

\* C14: with valid inputs every period advance completes.  The issuance
\* loop runs while the accumulator covers a principal, so it ends when each
\* issuance leaves strictly less in the accumulator than it found; and a
\* call that has returned holds total_periods records, record k for period k.
C14_PeriodAdvanceCompletes ==
    /\ [][(Running /\ ValidConfig /\ Issuance)
            => ytd_payment_received' < ytd_payment_received]_vars
    /\ []((Running /\ ValidConfig)
            => /\ Len(schedule) <= total_periods
               /\ \A k \in 1 .. Len(schedule) : schedule[k].Period = k
               /\ pc = "done" => Len(schedule) = total_periods)
\* the records generate_lender_schedule returns for the arguments of the call
LenderView ==
    LenderSchedule(principal, annual_interest_rate, total_periods,
                   periods_per_year).schedule

\* C15: a call of the rolling simulator with valid inputs and a policy that
\* never issues returns, period for period, the payment, interest and
\* principal and the cumulative interest and payment that
\* generate_lender_schedule returns for the same principal, rate, periods
\* and periods per year.
C15_NeverIssueMatchesLender ==
    (Running /\ ValidConfig /\ should_issue_loan = "never" /\ pc = "done") =>
        /\ Len(schedule) = Len(LenderView)
        /\ \A k \in 1 .. Len(schedule) :
            /\ schedule[k].PaymentReceived = LenderView[k].PaymentReceived
            /\ schedule[k].InterestIncome = LenderView[k].InterestIncome
            /\ schedule[k].PrincipalRepaid = LenderView[k].PrincipalRepaid
            /\ schedule[k].YTDInterestIncome = LenderView[k].YTDInterestIncome
            /\ schedule[k].YTDPaymentReceived = LenderView[k].YTDPaymentReceived
\* the loans issued in period k by its issuance loop, those issued up to the
\* end of period k, and those of them not removed by then
IssuedIn(k) == {j \in 2 .. Len(ledger) : ledger[j].start_period = k}
IssuedUpTo(k) == {j \in 1 .. Len(ledger) : ledger[j].start_period <= k}
ActiveAfter(k) ==
    {j \in IssuedUpTo(k) : ledger[j].removed = 0 \/ ledger[j].removed > k}

\* C16: the record of period k holds the payment, interest and principal
\* totals of the loans serviced in k, none of which was issued in k, and the
\* portfolio as it is after k's removals and issuances: the loans issued so
\* far, those of them still active, and the aggregate balance of the active
\* loans, in which each loan issued in k counts for one full principal.
C16_RecordFrame ==
    (BetweenPeriods /\ ValidConfig) =>
        /\ Len(schedule) = period /\ Len(period_totals) = period
        /\ \A k \in 1 .. Len(schedule) :
            /\ schedule[k].PaymentReceived = Round2(period_totals[k].payment)
            /\ schedule[k].InterestIncome = Round2(period_totals[k].interest)
            /\ schedule[k].PrincipalRepaid = Round2(period_totals[k].principal)
            /\ \A j \in IssuedIn(k) : ledger[j].first_paid # k
            /\ schedule[k].TotalLoansIssued = Cardinality(IssuedUpTo(k))
            /\ schedule[k].ActiveLoansCount = Cardinality(ActiveAfter(k))
            /\ schedule[k].RemainingPrincipal = Round2(period_totals[k].remaining)
        /\ period >= 1 =>
            /\ period_totals[period].remaining = RemainingPrincipal(active_loans)
            /\ Len(active_loans) = Cardinality(ActiveAfter(period))
            /\ \A j \in 1 .. Len(active_loans) :
                active_loans[j].id \in IssuedIn(period)
                    => active_loans[j].remaining_balance = principal

\* a record of a period in which a loan was issued and another removed
C16_Witness ==
    /\ BetweenPeriods /\ ValidConfig
    /\ \E k \in 1 .. Len(schedule) :
        /\ IssuedIn(k) # {}
        /\ \E j \in 1 .. Len(ledger) : ledger[j].removed = k
        /\ schedule[k].ActiveLoansCount >= 1
        /\ schedule[k].PrincipalRepaid > 0
\* lines 13-17: the unrounded amounts of periods per .. periods of the
\* single-loan schedule, from the balance left after period per - 1
RECURSIVE PmtAmounts(_, _, _, _, _)
PmtAmounts(per, periods, balance, rate, pmt) ==
    IF per > periods THEN << >>
    ELSE LET interest_payment == FMul(balance, rate)
             reduced == balance - (pmt - interest_payment)
             remaining_balance == IF AbsLtTol(reduced) THEN 0 ELSE reduced
         IN  << [payment |-> pmt, interest |-> interest_payment,
                 remaining |-> remaining_balance] >>
             \o PmtAmounts(per + 1, periods, remaining_balance, rate, pmt)

\* the unrounded amounts behind the single-loan schedule of the call
Unrounded ==
    LET f == PaymentFormula(principal, annual_interest_rate, total_periods,
                            periods_per_year)
    IN  PmtAmounts(1, total_periods, principal, f.r, f.pmt)

\* C17: rounding to 2 decimals is applied to output fields only.  Each
\* remaining balance of the single-loan schedule is the rounding of the
\* unrounded running balance; each cumulative interest and payment of the
\* lender schedule is the rounding of the sum of the unrounded interest and
\* payments of the periods so far; and so is each cumulative interest and
\* payment of the rolling simulator.
C17_RoundingOnOutputOnly ==
    /\ ((SingleLoanDone \/ LenderDone) /\ ValidConfig) =>
        \A k \in 1 .. Len(borrower_schedule) :
            borrower_schedule[k].RemainingBalance = Round2(Unrounded[k].remaining)
    /\ (LenderDone /\ ValidConfig) =>
        \A k \in 1 .. Len(lender_schedule) :
            /\ lender_schedule[k].YTDInterestIncome
                = Round2(SumOver(SubSeq(Unrounded, 1, k), "interest"))
            /\ lender_schedule[k].YTDPaymentReceived
                = Round2(SumOver(SubSeq(Unrounded, 1, k), "payment"))
    /\ (BetweenPeriods /\ ValidConfig) =>
        \A k \in 1 .. Len(schedule) :
            /\ schedule[k].YTDInterestIncome
                = Round2(SumOver(SubSeq(period_totals, 1, k), "interest"))
            /\ schedule[k].YTDPaymentReceived
                = Round2(SumOver(SubSeq(period_totals, 1, k), "payment"))
\* C18: with valid inputs, a payment applied to a loan of positive balance
\* has a strictly positive principal portion, and so leaves the loan a
\* strictly smaller balance; and no step raises the balance of a loan that
\* stays in the active list.
C18_BalanceStrictlyDecreases ==
    /\ []((Running /\ ValidConfig /\ last_payment.id # 0)
            => last_payment.principal_payment > 0)
    /\ [][(Running /\ ValidConfig) =>
            \A j \in 1 .. Len(active_loans), k \in 1 .. Len(active_loans') :
                active_loans[j].id = active_loans'[k].id
                    => active_loans'[k].remaining_balance
                            <= active_loans[j].remaining_balance]_vars
\* the default policy with no cap on the loans issued
Unconstrained == should_issue_loan = "None" /\ max_loans = None

\* C19: with valid inputs the reinvestment accumulator is the cumulative
\* payment received less one principal for each loan issued after the seed,
\* and is never negative; when a period has ended under the default policy
\* with no cap, it is less than one principal.
C19_CashConservation ==
    (Running /\ ValidConfig) =>
        /\ ytd_payment_received
            = cumulative_payment_received
                - principal * (total_loans_issued - InitialLoansIssued)
        /\ ytd_payment_received >= 0
        /\ (BetweenPeriods /\ Unconstrained) => ytd_payment_received < principal

\* a period has ended with loans issued and cash left over
C19_Witness ==
    /\ BetweenPeriods /\ ValidConfig /\ Unconstrained
    /\ period >= 2
    /\ total_loans_issued >= 3
    /\ ytd_payment_received > 0
    /\ cumulative_payment_received > 2 * principal

\* C20: with valid inputs no loan issued after the seed is paid off within
\* the run, and the seed is not before the final period: only the seed loan
\* is ever removed, and only in period total_periods; every record before
\* the last has Active Loans Count equal to Total Loans Issued, and every
\* record has it at least Total Loans Issued - 1.
C20_OnlySeedRetires ==
    (Running /\ ValidConfig) =>
        /\ \A j \in 1 .. Len(ledger) :
            ledger[j].removed # 0 => j = 1 /\ ledger[j].removed = total_periods
        /\ \A k \in 1 .. Len(schedule) :
            /\ k < total_periods =>
                schedule[k].ActiveLoansCount = schedule[k].TotalLoansIssued
            /\ schedule[k].ActiveLoansCount >= schedule[k].TotalLoansIssued - 1
====
